---- MODULE Spec2Model ----
(***************************************************************************)
(* Helwan Commerce College chatbot: the topic classifier, the response     *)
(* cache lookup, the post-response validator (response_validator.py) and   *)
(* the chat input handlers of the Gemini app (gam3a_chatbot_gemini.py)     *)
(* and of the OpenAI app (gam3a_chatbot_only.py).                          *)
(*                                                                         *)
(* Text is modelled character by character: a Python str is a sequence of  *)
(* Unicode code points (naturals).  The inputs range over ASCII and the    *)
(* Arabic block U+0600..U+06FF, which is where every keyword and pattern  *)
(* of the source tables lives; the character classes below are Python's   *)
(* restricted to that range.                                               *)
(***************************************************************************)
EXTENDS Integers, Sequences, FiniteSets, TLC

VARIABLES
    app,                  \* which Streamlit script serves the session
    messages,             \* st.session_state.messages
    loaded_info,          \* college_info = load_college_info()
    system_message,       \* st.session_state.system_message
    response_cache,       \* st.session_state.response_cache (insertion order)
    pc,                   \* position of the script run inside the handler
    prompt,               \* the question of the turn being handled
    full_response,        \* text accumulated from the stream
    messages_with_system, \* the sequence handed to the model this turn
    steps,                \* components consulted this turn, in order
    turns,                \* user turns submitted so far (bounded)
    nchunks,              \* chunks received from the current stream
    input,                \* argument record of a function under check
    output                \* <<its result>>, Pending before the call

vars == <<app, messages, loaded_info, system_message, response_cache, pc, prompt,
          full_response, messages_with_system, steps, turns, nchunks,
          input, output>>

sessionVars == <<app, messages, loaded_info, system_message, response_cache, pc, prompt,
                 full_response, messages_with_system, steps, turns, nchunks>>

-----------------------------------------------------------------------------
(* Bounds *)

MaxParts == 3      \* fragments concatenated into one question
MaxTurns == 2      \* user turns in one session
MaxChunks == 1     \* chunks one stream delivers before it ends


-----------------------------------------------------------------------------
(* Python str primitives *)

Min(S) == CHOOSE x \in S : \A y \in S : x <= y
Max(S) == CHOOSE x \in S : \A y \in S : x >= y

\* str.lower(): A-Z map to a-z; Arabic letters have no case
LowerChar(c) == IF c \in 65..90 THEN c + 32 ELSE c
Lower(s) == [i \in 1..Len(s) |-> LowerChar(s[i])]

\* str.isspace() on the modelled range
IsSpace(c) == c \in (9..13) \cup (28..32)

\* str.strip(): drop leading and trailing whitespace
strip(s) ==
    LET keep == {i \in 1..Len(s) : ~IsSpace(s[i])}
    IN  IF keep = {} THEN <<>> ELSE SubSeq(s, Min(keep), Max(keep))

\* t in s
MatchesAt(s, t, i) ==
    /\ i + Len(t) - 1 <= Len(s)
    /\ \A k \in 1..Len(t) : s[i + k - 1] = t[k]
Contains(s, t) == \E i \in 1..(Len(s) - Len(t) + 1) : MatchesAt(s, t, i)

\* any(ord(char) > 127 for char in s)
HasNonAscii(s) == \E i \in 1..Len(s) : s[i] > 127

-----------------------------------------------------------------------------
(* re.search for the regular-expression shapes the source uses *)

Newline == 10

\* \w of a str pattern on the modelled range
IsWordChar(c) ==
    \/ c \in 48..57 \/ c \in 65..90 \/ c = 95 \/ c \in 97..122
    \/ c \in 1568..1610 \/ c \in 1632..1641 \/ c \in 1646..1647
    \/ c \in 1649..1747 \/ c = 1749 \/ c \in 1765..1766
    \/ c \in 1774..1788 \/ c = 1791

\* ^t$ : $ matches at the end and before one trailing newline
SearchWhole(s, t) == s = t \/ s = t \o <<Newline>>

\* a.*b : . matches everything but a newline
SearchGap(s, a, b) ==
    \E i \in 1..Len(s) : \E j \in 1..Len(s) :
        /\ MatchesAt(s, a, i)
        /\ j >= i + Len(a)
        /\ MatchesAt(s, b, j)
        /\ \A k \in (i + Len(a))..(j - 1) : s[k] # Newline

\* a\w+ : a followed by at least one word character
SearchThenWord(s, a) ==
    \E i \in 1..Len(s) :
        /\ MatchesAt(s, a, i)
        /\ i + Len(a) <= Len(s)
        /\ IsWordChar(s[i + Len(a)])

-----------------------------------------------------------------------------
(* response_validator.py: is_college_related_question *)

college_keywords ==
    << <<1603, 1604, 1610, 1577>>,  \* "\u0643\u0644\u064a\u0629"
       <<1578, 1580, 1575, 1585, 1577>>,  \* "\u062a\u062c\u0627\u0631\u0629"
       <<1581, 1604, 1608, 1575, 1606>>,  \* "\u062d\u0644\u0648\u0627\u0646"
       <<98, 105, 115>>,  \* "bis"
       <<102, 109, 105>>,  \* "fmi"
       <<115, 98, 115>>,  \* "sbs"
       <<1575, 1606, 1580, 1604, 1610, 1588>>,  \* "\u0627\u0646\u062c\u0644\u064a\u0634"
       <<1593, 1585, 1576, 1610>>,  \* "\u0639\u0631\u0628\u064a"
       <<99, 111, 108, 108, 101, 103, 101>>,  \* "college"
       <<99, 111, 109, 109, 101, 114, 99, 101>>,  \* "commerce"
       <<104, 101, 108, 119, 97, 110>>,  \* "helwan"
       <<101, 110, 103, 108, 105, 115, 104>>,  \* "english"
       <<97, 114, 97, 98, 105, 99>>,  \* "arabic"
       <<98, 117, 115, 105, 110, 101, 115, 115>>,  \* "business"
       <<1605, 1589, 1575, 1585, 1610, 1601>>,  \* "\u0645\u0635\u0627\u0631\u064a\u0641"
       <<102, 101, 101, 115>>,  \* "fees"
       <<1578, 1602, 1583, 1610, 1605>>,  \* "\u062a\u0642\u062f\u064a\u0645"
       <<97, 100, 109, 105, 115, 115, 105, 111, 110>>,  \* "admission"
       <<1602, 1576, 1608, 1604>>,  \* "\u0642\u0628\u0648\u0644"
       <<97, 99, 99, 101, 112, 116, 97, 110, 99, 101>>,  \* "acceptance"
       <<1575, 1606, 1578, 1592, 1575, 1605>>,  \* "\u0627\u0646\u062a\u0638\u0627\u0645"
       <<1575, 1606, 1578, 1587, 1575, 1576>>,  \* "\u0627\u0646\u062a\u0633\u0627\u0628"
       <<1583, 1585, 1575, 1587, 1577>>,  \* "\u062f\u0631\u0627\u0633\u0629"
       <<1591, 1604, 1575, 1576>>,  \* "\u0637\u0644\u0627\u0628"
       <<115, 116, 117, 100, 101, 110, 116, 115>>,  \* "students"
       <<115, 116, 117, 100, 121>>,  \* "study"
       <<1605, 1581, 1575, 1587, 1576, 1577>>,  \* "\u0645\u062d\u0627\u0633\u0628\u0629"
       <<1575, 1583, 1575, 1585, 1577>>,  \* "\u0627\u062f\u0627\u0631\u0629"
       <<1575, 1602, 1578, 1589, 1575, 1583>>,  \* "\u0627\u0642\u062a\u0635\u0627\u062f"
       <<1575, 1581, 1589, 1575, 1569>>,  \* "\u0627\u062d\u0635\u0627\u0621"
       <<1602, 1587, 1605>>,  \* "\u0642\u0633\u0645"
       <<100, 101, 112, 97, 114, 116, 109, 101, 110, 116>>,  \* "department"
       <<1588, 1607, 1575, 1583, 1577>>,  \* "\u0634\u0647\u0627\u062f\u0629"
       <<99, 101, 114, 116, 105, 102, 105, 99, 97, 116, 101>>,  \* "certificate"
       <<1578, 1582, 1585, 1580>>,  \* "\u062a\u062e\u0631\u062c"
       <<103, 114, 97, 100, 117, 97, 116, 105, 111, 110>>,  \* "graduation"
       <<1587, 1606, 1577>>,  \* "\u0633\u0646\u0629"
       <<121, 101, 97, 114>>,  \* "year"
       <<1601, 1589, 1604>>,  \* "\u0641\u0635\u0644"
       <<115, 101, 109, 101, 115, 116, 101, 114>>,  \* "semester"
       <<1605, 1608, 1575, 1583>>,  \* "\u0645\u0648\u0627\u062f"
       <<115, 117, 98, 106, 101, 99, 116, 115>>,  \* "subjects"
       <<1575, 1606, 1578, 1585, 1601, 1610, 1608>>,  \* "\u0627\u0646\u062a\u0631\u0641\u064a\u0648"
       <<105, 110, 116, 101, 114, 118, 105, 101, 119>> >>  \* "interview"

\* the literal pieces of the regular expressions below
re_hell == <<104, 101, 108, 108>>  \* "hell"
re_hello == <<104, 101, 108, 108, 111>>  \* "hello"
re_hi == <<104, 105>>  \* "hi"
re_hey == <<104, 101, 121>>  \* "hey"
re_thank == <<116, 104, 97, 110, 107>>  \* "thank"
re_thanks == <<116, 104, 97, 110, 107, 115>>  \* "thanks"
re_thank_you == <<116, 104, 97, 110, 107, 32, 121, 111, 117>>  \* "thank you"
re_good_morning == <<103, 111, 111, 100, 32, 109, 111, 114, 110, 105, 110, 103>>  \* "good morning"
re_good_afternoon == <<103, 111, 111, 100, 32, 97, 102, 116, 101, 114, 110, 111, 111, 110>>  \* "good afternoon"
re_good_evening == <<103, 111, 111, 100, 32, 101, 118, 101, 110, 105, 110, 103>>  \* "good evening"
re_how_are_you == <<104, 111, 119, 32, 97, 114, 101, 32, 121, 111, 117>>  \* "how are you"
re_what == <<119, 104, 97, 116>>  \* "what"
re_my_name == <<109, 121, 32, 110, 97, 109, 101>>  \* "my name"
re_who_am_i == <<119, 104, 111, 32, 97, 109, 32, 105>>  \* "who am i"
re_i_am_ == <<105, 32, 97, 109, 32>>  \* "i am "
re_my_name_is == <<109, 121, 32, 110, 97, 109, 101, 32, 105, 115>>  \* "my name is"
re_how_to_hack == <<104, 111, 119, 32, 116, 111, 32, 104, 97, 99, 107>>  \* "how to hack"
re_how_to_steal == <<104, 111, 119, 32, 116, 111, 32, 115, 116, 101, 97, 108>>  \* "how to steal"
re_how_to_cheat == <<104, 111, 119, 32, 116, 111, 32, 99, 104, 101, 97, 116>>  \* "how to cheat"
re_illegal == <<105, 108, 108, 101, 103, 97, 108>>  \* "illegal"
re_drugs == <<100, 114, 117, 103, 115>>  \* "drugs"
re_violence == <<118, 105, 111, 108, 101, 110, 99, 101>>  \* "violence"
re_explicit == <<101, 120, 112, 108, 105, 99, 105, 116>>  \* "explicit"
re_adult == <<97, 100, 117, 108, 116>>  \* "adult"
re_content == <<99, 111, 110, 116, 101, 110, 116>>  \* "content"

\* greeting_patterns, one entry per pattern in source order: whether
\* re.search(pattern, question_lower) finds a match
greeting_patterns(question_lower) ==
    << SearchWhole(question_lower, re_hell) \/ SearchWhole(question_lower, re_hello), \* ^hello?$
       SearchWhole(question_lower, re_hi),                                            \* ^hi$
       SearchWhole(question_lower, re_hey),                                           \* ^hey$
       Contains(question_lower, re_thank) \/ Contains(question_lower, re_thanks),     \* thanks?
       Contains(question_lower, re_thank_you),                                        \* thank you
       \/ Contains(question_lower, re_good_morning)                                   \* good (morning|afternoon|evening)
       \/ Contains(question_lower, re_good_afternoon)
       \/ Contains(question_lower, re_good_evening),
       Contains(question_lower, re_how_are_you),                                      \* how are you
       SearchGap(question_lower, re_what, re_my_name),                                \* what.*my name
       Contains(question_lower, re_who_am_i),                                         \* who am i
       SearchThenWord(question_lower, re_i_am_),                                      \* i am \w+
       Contains(question_lower, re_my_name_is) >>                                     \* my name is

\* inappropriate_patterns, one entry per pattern in source order
inappropriate_patterns(question_lower) ==
    << \/ Contains(question_lower, re_how_to_hack)                                    \* how to (hack|steal|cheat)
       \/ Contains(question_lower, re_how_to_steal)
       \/ Contains(question_lower, re_how_to_cheat),
       Contains(question_lower, re_illegal),                                          \* illegal
       Contains(question_lower, re_drugs),                                            \* drugs
       Contains(question_lower, re_violence),                                         \* violence
       SearchGap(question_lower, re_explicit, re_content),                            \* explicit.*content
       SearchGap(question_lower, re_adult, re_content) >>                             \* adult.*content

AnyTrue(bools) == \E i \in DOMAIN bools : bools[i]

\* keyword.lower() for keyword in college_keywords
college_keywords_lower ==
    [i \in DOMAIN college_keywords |-> Lower(college_keywords[i])]

HasCollegeKeyword(question_lower) ==
    \E i \in DOMAIN college_keywords_lower :
        Contains(question_lower, college_keywords_lower[i])

\* Variants of the classifier with one rule displaced, used to
\* show that the properties below depend on the order of its rules.
is_college_related_question_inappropriate_first(question) ==
    LET question_lower == Lower(question)
    IN  IF AnyTrue(inappropriate_patterns(question_lower)) THEN FALSE
        ELSE IF HasCollegeKeyword(question_lower) THEN TRUE
        ELSE IF AnyTrue(greeting_patterns(question_lower)) THEN TRUE
        ELSE IF Len(strip(question)) <= 2 THEN FALSE
        ELSE TRUE

is_college_related_question_no_inappropriate(question) ==
    LET question_lower == Lower(question)
    IN  IF HasCollegeKeyword(question_lower) THEN TRUE
        ELSE IF AnyTrue(greeting_patterns(question_lower)) THEN TRUE
        ELSE IF Len(strip(question)) <= 2 THEN FALSE
        ELSE TRUE

is_college_related_question_short_is_3(question) ==
    LET question_lower == Lower(question)
    IN  IF HasCollegeKeyword(question_lower) THEN TRUE
        ELSE IF AnyTrue(greeting_patterns(question_lower)) THEN TRUE
        ELSE IF Len(strip(question)) <= 3 THEN FALSE
        ELSE IF AnyTrue(inappropriate_patterns(question_lower)) THEN FALSE
        ELSE TRUE

is_college_related_question_no_strip(question) ==
    LET question_lower == Lower(question)
    IN  IF HasCollegeKeyword(question_lower) THEN TRUE
        ELSE IF AnyTrue(greeting_patterns(question_lower)) THEN TRUE
        ELSE IF Len(question) <= 2 THEN FALSE
        ELSE IF AnyTrue(inappropriate_patterns(question_lower)) THEN FALSE
        ELSE TRUE

is_college_related_question_short_first(question) ==
    LET question_lower == Lower(question)
    IN  IF HasCollegeKeyword(question_lower) THEN TRUE
        ELSE IF Len(strip(question)) <= 2 THEN FALSE
        ELSE IF AnyTrue(inappropriate_patterns(question_lower)) THEN FALSE
        ELSE IF AnyTrue(greeting_patterns(question_lower)) THEN TRUE
        ELSE TRUE

is_college_related_question(question) ==
    LET question_lower == Lower(question)
    IN  IF HasCollegeKeyword(question_lower) THEN TRUE
        ELSE IF AnyTrue(greeting_patterns(question_lower)) THEN TRUE
        ELSE IF Len(strip(question)) <= 2 THEN FALSE
        ELSE IF AnyTrue(inappropriate_patterns(question_lower)) THEN FALSE
        ELSE TRUE

-----------------------------------------------------------------------------
(* Inputs of the classifier: cases of test_question_validator, and every     *)
(* concatenation of at most MaxParts of the fragments below                 *)

Fragments ==
    { <<32>>,  \* " "
      <<10>>,  \* "\n"
      <<104, 105>>,  \* "hi"
      <<116, 104, 97, 110, 107, 115>>,  \* "thanks"
      <<119, 104, 97, 116>>,  \* "what"
      <<109, 121, 32, 110, 97, 109, 101>>,  \* "my name"
      <<105, 32, 97, 109, 32>>,  \* "i am "
      <<120>>,  \* "x"
      <<66, 73, 83>>,  \* "BIS"
      <<1603, 1604, 1610, 1577>>,  \* "\u0643\u0644\u064a\u0629"
      <<1605, 1585, 1581, 1576, 1575>>,  \* "\u0645\u0631\u062d\u0628\u0627"
      <<104, 111, 119, 32, 116, 111, 32, 104, 97, 99, 107>>,  \* "how to hack"
      <<73, 108, 108, 101, 103, 97, 108>>,  \* "Illegal"
      <<97, 100, 117, 108, 116>>,  \* "adult"
      <<99, 111, 110, 116, 101, 110, 116>> }  \* "content"

TestQuestions ==
    { <<1605, 1589, 1575, 1585, 1610, 1601, 32, 66, 73, 83, 1567>>,  \* "\u0645\u0635\u0627\u0631\u064a\u0641 BIS\u061f"
      <<87, 104, 97, 116, 32, 97, 114, 101, 32, 66, 73, 83, 32, 112, 114, 111, 103, 114, 97, 109, 32, 102, 101, 101, 115, 63>>,  \* "What are BIS program fees?"
      <<66, 73, 83>>,  \* "BIS"
      <<1575, 1604, 1602, 1576, 1608, 1604>>,  \* "\u0627\u0644\u0642\u0628\u0648\u0644"
      <<87, 104, 97, 116, 32, 105, 115, 32, 116, 104, 101, 32, 119, 101, 97, 116, 104, 101, 114, 32, 116, 111, 100, 97, 121, 63>>,  \* "What is the weather today?"
      <<87, 104, 111, 32, 105, 115, 32, 116, 104, 101, 32, 112, 114, 101, 115, 105, 100, 101, 110, 116, 63>>,  \* "Who is the president?"
      <<72, 111, 119, 32, 116, 111, 32, 99, 111, 111, 107, 32, 112, 97, 115, 116, 97, 63>>,  \* "How to cook pasta?"
      <<84, 101, 108, 108, 32, 109, 101, 32, 97, 32, 106, 111, 107, 101>>,  \* "Tell me a joke"
      <<87, 104, 97, 116, 32, 105, 115, 32, 80, 121, 116, 104, 111, 110, 63>>,  \* "What is Python?"
      <<72, 111, 119, 32, 111, 108, 100, 32, 97, 114, 101, 32, 121, 111, 117, 63>>,  \* "How old are you?"
      <<>>,  \* ""
      <<32, 32, 32>>,  \* "   "
      <<49, 50, 51, 52, 53, 54>>,  \* "123456"
      <<33, 64, 35, 36, 37>> }  \* "!@#$%"

RECURSIVE Concats(_, _)
Concats(F, n) ==
    IF n = 0 THEN {<<>>}
    ELSE LET shorter == Concats(F, n - 1)
         IN  shorter \cup {s \o f : s \in shorter, f \in F}

Questions == Concats(Fragments, MaxParts) \cup TestQuestions

\* output holds no result before the call and <<result>> after it
Pending == <<>>

-----------------------------------------------------------------------------
(* The session before any script run *)

SessionIdle ==
    /\ app = "none"
    /\ messages = <<>>
    /\ loaded_info = <<>>
    /\ system_message = <<>>
    /\ response_cache = <<>>
    /\ pc = "idle"
    /\ prompt = <<>>
    /\ full_response = <<>>
    /\ messages_with_system = <<>>
    /\ steps = <<>>
    /\ turns = 0
    /\ nchunks = 0

-----------------------------------------------------------------------------
(* The classifier applied to one question *)

ClassifierInit ==
    /\ SessionIdle
    /\ input \in [question : Questions]
    /\ output = Pending

Classify ==
    /\ output = Pending
    /\ output' = <<is_college_related_question(input.question)>>
    /\ UNCHANGED <<input, sessionVars>>

ClassifierNext == Classify

ClassifierSpec == ClassifierInit /\ [][ClassifierNext]_vars

-----------------------------------------------------------------------------
(* Properties of the classifier, checked under ClassifierSpec *)

Classified == output # Pending
Accepted == output = <<TRUE>>
Rejected == output = <<FALSE>>

question_lower_in == Lower(input.question)
InHasKeyword == HasCollegeKeyword(question_lower_in)
InHasGreeting == AnyTrue(greeting_patterns(question_lower_in))
InHasInappropriate == AnyTrue(inappropriate_patterns(question_lower_in))

\* the off-topic terms the specification lists for its blocklist
OffTopicTerms ==
    { <<119, 101, 97, 116, 104, 101, 114>>,  \* "weather"
      <<110, 101, 119, 115>>,  \* "news"
      <<115, 112, 111, 114, 116, 115>>,  \* "sports"
      <<102, 111, 111, 100>>,  \* "food"
      <<109, 111, 118, 105, 101, 115>>,  \* "movies"
      <<109, 117, 115, 105, 99>>,  \* "music"
      <<112, 111, 108, 105, 116, 105, 99, 115>>,  \* "politics"
      <<114, 101, 108, 105, 103, 105, 111, 110>> }  \* "religion"
InHasOffTopic == \E t \in OffTopicTerms : Contains(question_lower_in, t)

q_hi == <<104, 105>>  \* "hi"

\* C3: a question that contains an off-topic blocklist term (weather, news,
\* sports, food, movies, music, politics, religion; case-insensitive
\* substring) is rejected.
C3_OffTopicRejected == (Classified /\ InHasOffTopic) => Rejected

\* C4: a question that contains a domain allowlist term is accepted,
\* whatever else it contains.
C4_KeywordAccepted == (Classified /\ InHasKeyword) => Accepted

\* C4 witness: an accepted question with a college keyword that also
\* matches an inappropriate-content pattern.
C4_Witness == Accepted /\ InHasKeyword /\ InHasInappropriate

\* C5: a question that matches an inappropriate-content pattern is rejected,
\* also when it contains an allowlist keyword or matches a greeting.
C5_InappropriateRejected == (Classified /\ InHasInappropriate) => Rejected

\* C6: a question with no college keyword and no greeting match is rejected
\* whatever its length.
C6_UnrelatedRejected ==
    (Classified /\ ~InHasKeyword /\ ~InHasGreeting) => Rejected

C8_ShortQuestions ==
    Classified =>
        /\ strip(input.question) = <<>> => Rejected
        /\ input.question = q_hi => Accepted
        /\ (Len(strip(input.question)) <= 2 /\ ~InHasGreeting) => Rejected

\* C8 witness: a non-empty whitespace-only question has been rejected.
C8_Witness ==
    /\ Rejected
    /\ Len(input.question) > 2
    /\ strip(input.question) = <<>>

\* C9: a question that matches a greeting, thanks or small-talk pattern is
\* accepted regardless of the rest of the question.
C9_GreetingAccepted == (Classified /\ InHasGreeting) => Accepted

\* C9 witness: an accepted question that matches a greeting pattern and an
\* inappropriate-content pattern and contains no college keyword.
C9_Witness == Accepted /\ InHasGreeting /\ InHasInappropriate /\ ~InHasKeyword

-----------------------------------------------------------------------------
(* gam3a_chatbot_gemini.py: the response cache and its lookup loop *)

\* the dict literal, as the sequence of its items in insertion order
gemini_response_cache ==
    << [key |-> <<1605, 1589, 1575, 1585, 1610, 1601, 32, 1593, 1585, 1576, 1610, 32, 1575, 1606, 1578, 1592, 1575, 1605>>,  \* "\u0645\u0635\u0627\u0631\u064a\u0641 \u0639\u0631\u0628\u064a \u0627\u0646\u062a\u0638\u0627\u0645"
        value |-> <<1605, 1589, 1575, 1585, 1610, 1601, 32, 1575, 1604, 1606, 1592, 1575, 1605, 32, 1575, 1604, 1593, 1585, 1576, 1610, 32, 1575, 1606, 1578, 1592, 1575, 1605, 58, 32, 42, 42, 51, 44, 54, 53, 48, 32, 1580, 1606, 1610, 1607, 32, 1587, 1606, 1608, 1610, 1575, 1611, 42, 42, 32, 128218>>],
       [key |-> <<1605, 1589, 1575, 1585, 1610, 1601, 32, 1593, 1585, 1576, 1610, 32, 1575, 1606, 1578, 1587, 1575, 1576>>,  \* "\u0645\u0635\u0627\u0631\u064a\u0641 \u0639\u0631\u0628\u064a \u0627\u0646\u062a\u0633\u0627\u0628"
        value |-> <<1605, 1589, 1575, 1585, 1610, 1601, 32, 1575, 1604, 1606, 1592, 1575, 1605, 32, 1575, 1604, 1593, 1585, 1576, 1610, 32, 1575, 1606, 1578, 1587, 1575, 1576, 58, 32, 42, 42, 52, 44, 49, 50, 48, 32, 1580, 1606, 1610, 1607, 32, 1587, 1606, 1608, 1610, 1575, 1611, 42, 42, 32, 128218>>],
       [key |-> <<1605, 1589, 1575, 1585, 1610, 1601, 32, 1593, 1585, 1576, 1610>>,  \* "\u0645\u0635\u0627\u0631\u064a\u0641 \u0639\u0631\u0628\u064a"
        value |-> <<1605, 1589, 1575, 1585, 1610, 1601, 32, 1575, 1604, 1606, 1592, 1575, 1605, 32, 1575, 1604, 1593, 1585, 1576, 1610, 58, 10, 8226, 32, 1575, 1606, 1578, 1592, 1575, 1605, 58, 32, 42, 42, 51, 44, 54, 53, 48, 32, 1580, 1606, 1610, 1607, 32, 1587, 1606, 1608, 1610, 1575, 1611, 42, 42, 10, 8226, 32, 1575, 1606, 1578, 1587, 1575, 1576, 58, 32, 42, 42, 52, 44, 49, 50, 48, 32, 1580, 1606, 1610, 1607, 32, 1587, 1606, 1608, 1610, 1575, 1611, 42, 42, 32, 128218>>],
       [key |-> <<1605, 1608, 1602, 1593, 32, 1575, 1604, 1603, 1604, 1610, 1577>>,  \* "\u0645\u0648\u0642\u0639 \u0627\u0644\u0643\u0644\u064a\u0629"
        value |-> <<1575, 1604, 1603, 1604, 1610, 1577, 32, 1601, 1610, 32, 1605, 1608, 1602, 1593, 1610, 1606, 58, 10, 8226, 32, 42, 42, 1575, 1604, 1606, 1592, 1575, 1605, 32, 1575, 1604, 1593, 1585, 1576, 1610, 32, 1608, 1575, 1604, 1573, 1606, 1580, 1604, 1610, 1586, 1610, 42, 42, 58, 32, 1581, 1604, 1608, 1575, 1606, 10, 8226, 32, 42, 42, 66, 73, 83, 32, 1608, 32, 70, 77, 73, 32, 1608, 32, 83, 66, 83, 42, 42, 58, 32, 1575, 1604, 1586, 1605, 1575, 1604, 1603, 32, 128205>>],
       [key |-> <<1601, 1610, 1606, 32, 1575, 1604, 1603, 1604, 1610, 1577>>,  \* "\u0641\u064a\u0646 \u0627\u0644\u0643\u0644\u064a\u0629"
        value |-> <<1575, 1604, 1603, 1604, 1610, 1577, 32, 1601, 1610, 32, 1605, 1608, 1602, 1593, 1610, 1606, 58, 10, 8226, 32, 42, 42, 1575, 1604, 1606, 1592, 1575, 1605, 32, 1575, 1604, 1593, 1585, 1576, 1610, 32, 1608, 1575, 1604, 1573, 1606, 1580, 1604, 1610, 1586, 1610, 42, 42, 58, 32, 1581, 1604, 1608, 1575, 1606, 10, 8226, 32, 42, 42, 66, 73, 83, 32, 1608, 32, 70, 77, 73, 32, 1608, 32, 83, 66, 83, 42, 42, 58, 32, 1575, 1604, 1586, 1605, 1575, 1604, 1603, 32, 128205>>] >>

Miss == [hit |-> FALSE, response |-> <<>>]

\* a lookup that lets the last matching entry win
RECURSIVE cache_scan_last(_, _, _)
cache_scan_last(cache, prompt_clean, i) ==
    IF i < 1 THEN Miss
    ELSE IF \/ Contains(prompt_clean, cache[i].key)
            \/ Contains(cache[i].key, prompt_clean)
         THEN [hit |-> TRUE, response |-> cache[i].value]
         ELSE cache_scan_last(cache, prompt_clean, i - 1)

cache_lookup_last_match(prompt_text, cache) ==
    cache_scan_last(cache, Lower(strip(prompt_text)), Len(cache))

\* for cached_q, cached_response in response_cache.items(): from entry i on
RECURSIVE cache_scan(_, _, _)
cache_scan(cache, prompt_clean, i) ==
    IF i > Len(cache) THEN Miss
    ELSE IF \/ Contains(prompt_clean, cache[i].key)
            \/ Contains(cache[i].key, prompt_clean)
         THEN [hit |-> TRUE, response |-> cache[i].value]
         ELSE cache_scan(cache, prompt_clean, i + 1)

\* prompt_clean = prompt.strip().lower(), then the loop
cache_lookup(prompt_text, cache) ==
    cache_scan(cache, Lower(strip(prompt_text)), 1)

-----------------------------------------------------------------------------
(* The cache lookup applied to one question.  The handler reaches the loop  *)
(* only with a question the classifier accepted.                            *)

CacheFragments ==
    { <<1605, 1589, 1575, 1585, 1610, 1601>>,  \* "\u0645\u0635\u0627\u0631\u064a\u0641"
      <<32>>,  \* " "
      <<1593, 1585, 1576, 1610>>,  \* "\u0639\u0631\u0628\u064a"
      <<1575, 1606, 1578, 1592, 1575, 1605>>,  \* "\u0627\u0646\u062a\u0638\u0627\u0645"
      <<1575, 1606, 1578, 1587, 1575, 1576>>,  \* "\u0627\u0646\u062a\u0633\u0627\u0628"
      <<1605, 1608, 1602, 1593>>,  \* "\u0645\u0648\u0642\u0639"
      <<1575, 1604, 1603, 1604, 1610, 1577>>,  \* "\u0627\u0644\u0643\u0644\u064a\u0629"
      <<1601, 1610, 1606>>,  \* "\u0641\u064a\u0646"
      <<1604, 1608, 32, 1587, 1605, 1581, 1578>>,  \* "\u0644\u0648 \u0633\u0645\u062d\u062a"
      <<66, 73, 83>>,  \* "BIS"
      <<1610>>,  \* "\u064a"
      <<10>> }  \* "\n"

CachePrompts ==
    {p \in Concats(CacheFragments, MaxParts) : is_college_related_question(p)}

CacheInit ==
    /\ SessionIdle
    /\ input \in [prompt : CachePrompts]
    /\ output = Pending

LookUp ==
    /\ output = Pending
    /\ output' = <<cache_lookup(input.prompt, gemini_response_cache)>>
    /\ UNCHANGED <<input, sessionVars>>

CacheNext == LookUp

CacheSpec == CacheInit /\ [][CacheNext]_vars

\* the entries whose key contains, or is contained in, the normalised prompt
prompt_clean_in == Lower(strip(input.prompt))
MatchingEntries ==
    {i \in DOMAIN gemini_response_cache :
        \/ Contains(prompt_clean_in, gemini_response_cache[i].key)
        \/ Contains(gemini_response_cache[i].key, prompt_clean_in)}

\* C10: the lookup returns the answer of the first entry, in insertion
\* order, whose key is a substring of the trimmed lowercased question or
\* contains it, and misses iff no key does.
C10_FirstMatchWins ==
    output # Pending =>
        IF MatchingEntries = {}
        THEN output[1].hit = FALSE
        ELSE /\ output[1].hit = TRUE
             /\ output[1].response = gemini_response_cache[Min(MatchingEntries)].value

\* C10 witness: the question equals the key of the third entry, the first
\* entry matches as well, and the first entry's answer was returned.
C10_Witness ==
    /\ output # Pending
    /\ prompt_clean_in = gemini_response_cache[3].key
    /\ {1, 3} \subseteq MatchingEntries
    /\ output[1].response = gemini_response_cache[1].value
    /\ gemini_response_cache[1].value # gemini_response_cache[3].value

-----------------------------------------------------------------------------
(* response_validator.py: validate_response, get_fallback_response,         *)
(* clean_response                                                           *)

RESTRICTED_KEYWORDS ==
    << <<1580, 1575, 1605, 1593, 1577, 32, 1575, 1604, 1602, 1575, 1607, 1585, 1577>>,  \* "\u062c\u0627\u0645\u0639\u0629 \u0627\u0644\u0642\u0627\u0647\u0631\u0629"
       <<1580, 1575, 1605, 1593, 1577, 32, 1593, 1610, 1606, 32, 1588, 1605, 1587>>,  \* "\u062c\u0627\u0645\u0639\u0629 \u0639\u064a\u0646 \u0634\u0645\u0633"
       <<1575, 1604, 1571, 1586, 1607, 1585>>,  \* "\u0627\u0644\u0623\u0632\u0647\u0631"
       <<1575, 1604, 1573, 1587, 1603, 1606, 1583, 1585, 1610, 1577>>,  \* "\u0627\u0644\u0625\u0633\u0643\u0646\u062f\u0631\u064a\u0629"
       <<67, 97, 105, 114, 111, 32, 85, 110, 105, 118, 101, 114, 115, 105, 116, 121>>,  \* "Cairo University"
       <<65, 105, 110, 32, 83, 104, 97, 109, 115>>,  \* "Ain Shams"
       <<65, 108, 101, 120, 97, 110, 100, 114, 105, 97, 32, 85, 110, 105, 118, 101, 114, 115, 105, 116, 121>>,  \* "Alexandria University"
       <<1605, 1593, 1604, 1608, 1605, 1575, 1578, 32, 1593, 1575, 1605, 1577>>,  \* "\u0645\u0639\u0644\u0648\u0645\u0627\u062a \u0639\u0627\u0645\u0629"
       <<103, 101, 110, 101, 114, 97, 108, 32, 105, 110, 102, 111, 114, 109, 97, 116, 105, 111, 110>>,  \* "general information"
       <<117, 115, 117, 97, 108, 108, 121>>,  \* "usually"
       <<116, 121, 112, 105, 99, 97, 108, 108, 121>>,  \* "typically"
       <<1601, 1610, 32, 1575, 1604, 1580, 1575, 1605, 1593, 1575, 1578, 32, 1575, 1604, 1605, 1589, 1585, 1610, 1577>>,  \* "\u0641\u064a \u0627\u0644\u062c\u0627\u0645\u0639\u0627\u062a \u0627\u0644\u0645\u0635\u0631\u064a\u0629"
       <<69, 103, 121, 112, 116, 105, 97, 110, 32, 117, 110, 105, 118, 101, 114, 115, 105, 116, 105, 101, 115>>,  \* "Egyptian universities"
       <<109, 111, 115, 116, 32, 99, 111, 108, 108, 101, 103, 101, 115>> >>  \* "most colleges"

\* vague_patterns: the pattern text and its alternatives, which are all literals
vague_patterns ==
    << [pattern |-> <<1593, 1575, 1583, 1577, 124, 117, 115, 117, 97, 108, 108, 121, 124, 116, 121, 112, 105, 99, 97, 108, 108, 121, 124, 103, 101, 110, 101, 114, 97, 108, 108, 121, 124, 1601, 1610, 32, 1605, 1593, 1592, 1605>>,  \* "\u0639\u0627\u062f\u0629|usually|typically|generally|\u0641\u064a \u0645\u0639\u0638\u0645"
        alternatives |-> { <<1593, 1575, 1583, 1577>>,
                          <<117, 115, 117, 97, 108, 108, 121>>,
                          <<116, 121, 112, 105, 99, 97, 108, 108, 121>>,
                          <<103, 101, 110, 101, 114, 97, 108, 108, 121>>,
                          <<1601, 1610, 32, 1605, 1593, 1592, 1605>> }],
       [pattern |-> <<1576, 1588, 1603, 1604, 32, 1593, 1575, 1605, 124, 105, 110, 32, 103, 101, 110, 101, 114, 97, 108, 124, 99, 111, 109, 109, 111, 110, 108, 121, 124, 111, 102, 116, 101, 110>>,  \* "\u0628\u0634\u0643\u0644 \u0639\u0627\u0645|in general|commonly|often"
        alternatives |-> { <<1576, 1588, 1603, 1604, 32, 1593, 1575, 1605>>,
                          <<105, 110, 32, 103, 101, 110, 101, 114, 97, 108>>,
                          <<99, 111, 109, 109, 111, 110, 108, 121>>,
                          <<111, 102, 116, 101, 110>> }],
       [pattern |-> <<1601, 1610, 32, 1575, 1604, 1580, 1575, 1605, 1593, 1575, 1578, 124, 105, 110, 32, 117, 110, 105, 118, 101, 114, 115, 105, 116, 105, 101, 115, 124, 109, 111, 115, 116, 32, 99, 111, 108, 108, 101, 103, 101, 115>>,  \* "\u0641\u064a \u0627\u0644\u062c\u0627\u0645\u0639\u0627\u062a|in universities|most colleges"
        alternatives |-> { <<1601, 1610, 32, 1575, 1604, 1580, 1575, 1605, 1593, 1575, 1578>>,
                          <<105, 110, 32, 117, 110, 105, 118, 101, 114, 115, 105, 116, 105, 101, 115>>,
                          <<109, 111, 115, 116, 32, 99, 111, 108, 108, 101, 103, 101, 115>> }] >>

issue_external_prefix == <<85, 115, 105, 110, 103, 32, 101, 120, 116, 101, 114, 110, 97, 108, 32, 107, 110, 111, 119, 108, 101, 100, 103, 101, 58, 32, 39>>  \* "Using external knowledge: '"
issue_external_suffix == <<39>>  \* "'"
issue_vague_prefix == <<85, 115, 105, 110, 103, 32, 118, 97, 103, 117, 101, 47, 103, 101, 110, 101, 114, 97, 108, 32, 108, 97, 110, 103, 117, 97, 103, 101, 58, 32>>  \* "Using vague/general language: "
issue_number_prefix == <<85, 115, 105, 110, 103, 32, 110, 117, 109, 98, 101, 114, 32, 110, 111, 116, 32, 105, 110, 32, 99, 111, 108, 108, 101, 103, 101, 32, 105, 110, 102, 111, 58, 32>>  \* "Using number not in college info: "

RECURSIVE Flatten(_)
Flatten(seqs) == IF seqs = <<>> THEN <<>> ELSE Head(seqs) \o Flatten(Tail(seqs))

\* \d of a str pattern on the modelled range
IsDigit(c) == c \in 48..57 \/ c \in 1632..1641 \/ c \in 1776..1785

\* re.findall(r'\d+', s) from position i on: the maximal digit runs, in order
RECURSIVE findall_digits(_, _)
findall_digits(s, i) ==
    LET digits == {k \in i..Len(s) : IsDigit(s[k])}
    IN  IF digits = {} THEN <<>>
        ELSE LET a == Min(digits)
                 j == Max({k \in a..Len(s) : \A m \in a..k : IsDigit(s[m])})
             IN  <<SubSeq(s, a, j)>> \o findall_digits(s, j + 1)

\* a keyword check that reads the knowledge document case-sensitively
keyword_issues_info_case_sensitive(response, college_info) ==
    Flatten([i \in DOMAIN RESTRICTED_KEYWORDS |->
        IF /\ Contains(Lower(response), Lower(RESTRICTED_KEYWORDS[i]))
           /\ ~Contains(college_info, Lower(RESTRICTED_KEYWORDS[i]))
        THEN << issue_external_prefix \o RESTRICTED_KEYWORDS[i]
                    \o issue_external_suffix >>
        ELSE <<>>])

\* for keyword in RESTRICTED_KEYWORDS: ...
keyword_issues(response, college_info) ==
    Flatten([i \in DOMAIN RESTRICTED_KEYWORDS |->
        IF /\ Contains(Lower(response), Lower(RESTRICTED_KEYWORDS[i]))
           /\ ~Contains(Lower(college_info), Lower(RESTRICTED_KEYWORDS[i]))
        THEN << issue_external_prefix \o RESTRICTED_KEYWORDS[i]
                    \o issue_external_suffix >>
        ELSE <<>>])

\* re.search(pattern, response, re.IGNORECASE) for an alternation of literals
SearchIgnoreCase(alternatives, response) ==
    \E a \in alternatives : Contains(Lower(response), Lower(a))

\* for pattern in vague_patterns: ...
vague_issues(response) ==
    Flatten([i \in DOMAIN vague_patterns |->
        IF SearchIgnoreCase(vague_patterns[i].alternatives, response)
        THEN << issue_vague_prefix \o vague_patterns[i].pattern >>
        ELSE <<>>])

InSeq(x, seq) == \E i \in DOMAIN seq : seq[i] = x

\* a number check that also flags runs of 2 digits
number_issues_two_digits(response, college_info) ==
    LET numbers_in_response == findall_digits(response, 1)
        numbers_in_info == findall_digits(college_info, 1)
    IN  Flatten([i \in DOMAIN numbers_in_response |->
            IF /\ ~InSeq(numbers_in_response[i], numbers_in_info)
               /\ Len(numbers_in_response[i]) > 1
            THEN << issue_number_prefix \o numbers_in_response[i] >>
            ELSE <<>>])

\* a number check that accepts a run found inside a run of the document
number_issues_substring(response, college_info) ==
    LET numbers_in_response == findall_digits(response, 1)
        numbers_in_info == findall_digits(college_info, 1)
    IN  Flatten([i \in DOMAIN numbers_in_response |->
            IF /\ ~(\E k \in DOMAIN numbers_in_info :
                       Contains(numbers_in_info[k], numbers_in_response[i]))
               /\ Len(numbers_in_response[i]) > 2
            THEN << issue_number_prefix \o numbers_in_response[i] >>
            ELSE <<>>])

\* for num in numbers_in_response: ...
number_issues(response, college_info) ==
    LET numbers_in_response == findall_digits(response, 1)
        numbers_in_info == findall_digits(college_info, 1)
    IN  Flatten([i \in DOMAIN numbers_in_response |->
            IF /\ ~InSeq(numbers_in_response[i], numbers_in_info)
               /\ Len(numbers_in_response[i]) > 2
            THEN << issue_number_prefix \o numbers_in_response[i] >>
            ELSE <<>>])

\* a validator that stops at the first check that finds something
validate_response_first_check(response, college_info) ==
    LET issues ==
            IF keyword_issues(response, college_info) # <<>>
            THEN keyword_issues(response, college_info)
            ELSE IF vague_issues(response) # <<>>
            THEN vague_issues(response)
            ELSE number_issues(response, college_info)
    IN  [is_valid |-> Len(issues) = 0,
         issues |-> issues,
         score |-> IF 100 - Len(issues) * 20 > 0
                   THEN 100 - Len(issues) * 20 ELSE 0]

\* a validator whose score is 100 - 20 * issues, without the max(0, ...)
validate_response_score_unclamped(response, college_info) ==
    LET issues == keyword_issues(response, college_info)
                    \o vague_issues(response)
                    \o number_issues(response, college_info)
    IN  [is_valid |-> Len(issues) = 0,
         issues |-> issues,
         score |-> 100 - Len(issues) * 20]

\* a validator that lets vague language pass when the knowledge document
\* matches a vague pattern too
validate_response_vague_unless_in_info(response, college_info) ==
    LET issues == keyword_issues(response, college_info)
                    \o (IF vague_issues(college_info) # <<>> THEN <<>>
                        ELSE vague_issues(response))
                    \o number_issues(response, college_info)
    IN  [is_valid |-> Len(issues) = 0,
         issues |-> issues,
         score |-> IF 100 - Len(issues) * 20 > 0
                   THEN 100 - Len(issues) * 20 ELSE 0]

validate_response(response, college_info) ==
    LET issues == keyword_issues(response, college_info)
                    \o vague_issues(response)
                    \o number_issues(response, college_info)
    IN  [is_valid |-> Len(issues) = 0,
         issues |-> issues,
         score |-> IF 100 - Len(issues) * 20 > 0
                   THEN 100 - Len(issues) * 20 ELSE 0]

fallback_arabic == <<1570, 1587, 1601, 1548, 32, 1575, 1604, 1605, 1593, 1604, 1608, 1605, 1577, 32, 1583, 1610, 32, 1605, 1588, 32, 1605, 1578, 1608, 1601, 1585, 1577, 32, 1593, 1606, 1583, 1610, 32, 1583, 1604, 1608, 1602, 1578, 1610, 1548, 32, 1576, 1587, 32, 1607, 1578, 1603, 1608, 1606, 32, 1605, 1578, 1575, 1581, 1577, 32, 1602, 1585, 1610, 1576, 32, 1573, 1606, 32, 1588, 1575, 1569, 32, 1575, 1604, 1604, 1607, 46, 32, 1605, 1605, 1603, 1606, 32, 1578, 1587, 1571, 1604, 32, 1593, 1606, 32, 1581, 1575, 1580, 1577, 32, 1578, 1575, 1606, 1610, 1577, 32, 1605, 1578, 1593, 1604, 1602, 1577, 32, 1576, 1603, 1604, 1610, 1577, 32, 1575, 1604, 1578, 1580, 1575, 1585, 1577, 32, 1580, 1575, 1605, 1593, 1577, 32, 1581, 1604, 1608, 1575, 1606, 1567>>  \* "\u0622\u0633\u0641\u060c \u0627\u0644\u0645\u0639\u0644\u0648\u0645\u0629 \u062f\u064a \u0645\u0634 \u0645\u062a\u0648\u0641\u0631\u0629 \u0639\u0646\u062f\u064a \u062f\u0644\u0648\u0642\u062a\u064a\u060c \u0628\u0633 \u0647\u062a\u0643\u0648\u0646 \u0645\u062a\u0627\u062d\u0629 \u0642\u0631\u064a\u0628 \u0625\u0646 \u0634\u0627\u0621 \u0627\u0644\u0644\u0647. \u0645\u0645\u0643\u0646 \u062a\u0633\u0623\u0644 \u0639\u0646 \u062d\u0627\u062c\u0629 \u062a\u0627\u0646\u064a\u0629 \u0645\u062a\u0639\u0644\u0642\u0629 \u0628\u0643\u0644\u064a\u0629 \u0627\u0644\u062a\u062c\u0627\u0631\u0629 \u062c\u0627\u0645\u0639\u0629 \u062d\u0644\u0648\u0627\u0646\u061f"
\* an English sentence that itself uses a vague word
fallback_english_vague == <<83, 111, 114, 114, 121, 44, 32, 73, 32, 117, 115, 117, 97, 108, 108, 121, 32, 100, 111, 110, 39, 116, 32, 104, 97, 118, 101, 32, 116, 104, 105, 115, 32, 105, 110, 102, 111, 114, 109, 97, 116, 105, 111, 110, 46>>  \* "Sorry, I usually don't have this information."

fallback_english == <<83, 111, 114, 114, 121, 44, 32, 73, 32, 100, 111, 110, 39, 116, 32, 104, 97, 118, 101, 32, 116, 104, 105, 115, 32, 105, 110, 102, 111, 114, 109, 97, 116, 105, 111, 110, 32, 114, 105, 103, 104, 116, 32, 110, 111, 119, 44, 32, 98, 117, 116, 32, 105, 116, 32, 119, 105, 108, 108, 32, 98, 101, 32, 97, 118, 97, 105, 108, 97, 98, 108, 101, 32, 115, 111, 111, 110, 46, 32, 67, 97, 110, 32, 121, 111, 117, 32, 97, 115, 107, 32, 97, 98, 111, 117, 116, 32, 115, 111, 109, 101, 116, 104, 105, 110, 103, 32, 101, 108, 115, 101, 32, 114, 101, 108, 97, 116, 101, 100, 32, 116, 111, 32, 116, 104, 101, 32, 70, 97, 99, 117, 108, 116, 121, 32, 111, 102, 32, 67, 111, 109, 109, 101, 114, 99, 101, 32, 97, 116, 32, 72, 101, 108, 119, 97, 110, 32, 85, 110, 105, 118, 101, 114, 115, 105, 116, 121, 63>>  \* "Sorry, I don't have this information right now, but it will be available soon. Can you ask about something else related to the Faculty of Commerce at Helwan University?"

get_fallback_response(question, is_arabic) ==
    IF is_arabic THEN fallback_arabic ELSE fallback_english

\* a clean_response that answers in Arabic only for Arabic letters
clean_response_arabic_letters(response, college_info) ==
    LET validation == validate_response(response, college_info)
    IN  IF ~validation.is_valid
        THEN get_fallback_response(<<>>,
                 \E i \in 1..Len(response) : response[i] \in 1536..1791)
        ELSE response

clean_response(response, college_info) ==
    LET validation == validate_response(response, college_info)
    IN  IF ~validation.is_valid
        THEN get_fallback_response(<<>>, HasNonAscii(response))
        ELSE response

-----------------------------------------------------------------------------
(* gam3a_chatbot_gemini.py and gam3a_chatbot_only.py: the session and the   *)
(* chat input handler.  A turn is one script run; it is split where the     *)
(* run waits for the model's stream.  Token, latency and cost bookkeeping   *)
(* of the OpenAI app is display-only and is left out.                       *)

\* load_college_info(): the file's text, or the fixed text when it is missing
info_unavailable == <<67, 111, 108, 108, 101, 103, 101, 32, 105, 110, 102, 111, 114, 109, 97, 116, 105, 111, 110, 32, 105, 115, 32, 99, 117, 114, 114, 101, 110, 116, 108, 121, 32, 117, 110, 97, 118, 97, 105, 108, 97, 98, 108, 101, 46>>  \* "College information is currently unavailable."
info_sample == <<66, 73, 83, 32, 102, 101, 101, 115, 58, 32, 51, 54, 53, 48, 10, 70, 77, 73, 32, 102, 101, 101, 115, 58, 32, 52, 49, 50, 48>>  \* "BIS fees: 3650\nFMI fees: 4120"
CollegeInfos == {info_unavailable, info_sample}

\* base_system_message: the f-string around {college_info}, of which the
\* fixed text is abbreviated to the lines next to the insertion point
gemini_system_prefix == <<68, 65, 84, 65, 58, 10>>  \* "DATA:\n"
gemini_system_suffix == <<10, 10, 75, 101, 101, 112, 32, 114, 101, 115, 112, 111, 110, 115, 101, 115, 32, 104, 101, 108, 112, 102, 117, 108, 44, 32, 97, 99, 99, 117, 114, 97, 116, 101, 44, 32, 97, 110, 100, 32, 102, 117, 110, 33>>  \* "\n\nKeep responses helpful, accurate, and fun!"
openai_system_prefix == <<67, 111, 108, 108, 101, 103, 101, 32, 73, 110, 102, 111, 114, 109, 97, 116, 105, 111, 110, 58, 10>>  \* "College Information:\n"
openai_system_suffix == <<10, 10, 67, 82, 73, 84, 73, 67, 65, 76, 32, 73, 78, 83, 84, 82, 85, 67, 84, 73, 79, 78, 83, 32, 45, 32, 70, 79, 76, 76, 79, 87, 32, 83, 84, 82, 73, 67, 84, 76, 89, 58>>  \* "\n\nCRITICAL INSTRUCTIONS - FOLLOW STRICTLY:"
base_system_message(which, college_info) ==
    IF which = "gemini"
    THEN gemini_system_prefix \o college_info \o gemini_system_suffix
    ELSE openai_system_prefix \o college_info \o openai_system_suffix

\* fixed texts of the handlers
fallback_msg == <<1571, 1606, 1575, 32, 1605, 1587, 1575, 1593, 1583, 32, 1605, 1582, 1589, 1589, 32, 1604, 1603, 1604, 1610, 1577, 32, 1575, 1604, 1578, 1580, 1575, 1585, 1577, 32, 1580, 1575, 1605, 1593, 1577, 32, 1581, 1604, 1608, 1575, 1606, 32, 1601, 1602, 1591, 46, 32, 1605, 1605, 1603, 1606, 32, 1578, 1587, 1571, 1604, 32, 1593, 1606, 32, 1575, 1604, 1576, 1585, 1575, 1605, 1580, 32, 1575, 1604, 1583, 1585, 1575, 1587, 1610, 1577, 32, 40, 66, 73, 83, 44, 32, 70, 77, 73, 44, 32, 83, 66, 83, 41, 1548, 32, 1575, 1604, 1578, 1602, 1583, 1610, 1605, 1548, 32, 1575, 1604, 1605, 1589, 1575, 1585, 1610, 1601, 1548, 32, 1571, 1608, 32, 1571, 1610, 32, 1581, 1575, 1580, 1577, 32, 1578, 1575, 1606, 1610, 1577, 32, 1605, 1578, 1593, 1604, 1602, 1577, 32, 1576, 1575, 1604, 1603, 1604, 1610, 1577, 1567>>  \* "\u0623\u0646\u0627 \u0645\u0633\u0627\u0639\u062f \u0645\u062e\u0635\u0635 \u0644\u0643\u0644\u064a\u0629 \u0627\u0644\u062a\u062c\u0627\u0631\u0629 \u062c\u0627\u0645\u0639\u0629 \u062d\u0644\u0648\u0627\u0646 \u0641\u0642\u0637. \u0645\u0645\u0643\u0646 \u062a\u0633\u0623\u0644 \u0639\u0646 \u0627\u0644\u0628\u0631\u0627\u0645\u062c \u0627\u0644\u062f\u0631\u0627\u0633\u064a\u0629 (BIS, FMI, SBS)\u060c \u0627\u0644\u062a\u0642\u062f\u064a\u0645\u060c \u0627\u0644\u0645\u0635\u0627\u0631\u064a\u0641\u060c \u0623\u0648 \u0623\u064a \u062d\u0627\u062c\u0629 \u062a\u0627\u0646\u064a\u0629 \u0645\u062a\u0639\u0644\u0642\u0629 \u0628\u0627\u0644\u0643\u0644\u064a\u0629\u061f"
gemini_error_response == <<1570, 1587, 1601, 1548, 32, 1581, 1583, 1579, 32, 1582, 1591, 1571, 32, 1578, 1602, 1606, 1610, 46, 32, 1610, 1585, 1580, 1609, 32, 1573, 1593, 1575, 1583, 1577, 32, 1603, 1578, 1575, 1576, 1577, 32, 1587, 1572, 1575, 1604, 1603, 46>>  \* "\u0622\u0633\u0641\u060c \u062d\u062f\u062b \u062e\u0637\u0623 \u062a\u0642\u0646\u064a. \u064a\u0631\u062c\u0649 \u0625\u0639\u0627\u062f\u0629 \u0643\u062a\u0627\u0628\u0629 \u0633\u0624\u0627\u0644\u0643."
openai_error_response == <<83, 111, 114, 114, 121, 44, 32, 73, 32, 101, 110, 99, 111, 117, 110, 116, 101, 114, 101, 100, 32, 97, 110, 32, 101, 114, 114, 111, 114, 46, 32, 80, 108, 101, 97, 115, 101, 32, 116, 114, 121, 32, 97, 103, 97, 105, 110, 46>>  \* "Sorry, I encountered an error. Please try again."
error_prefix == <<69, 114, 114, 111, 114, 58, 32>>  \* "Error: "

\* history window of the prompt
gemini_window == 12
openai_window == 6

\* what a user types in a turn, what the model streams, what a provider
\* failure reports
q_short == <<1601, 1610>>  \* "\u0641\u064a"
q_ok == <<111, 107>>  \* "ok"
q_cached == <<1605, 1589, 1575, 1585, 1610, 1601, 32, 1593, 1585, 1576, 1610>>  \* "\u0645\u0635\u0627\u0631\u064a\u0641 \u0639\u0631\u0628\u064a"
q_bis == <<66, 73, 83, 32, 102, 101, 101, 115, 63>>  \* "BIS fees?"
chunk_plain == <<66, 73, 83, 32, 102, 101, 101, 115, 58, 32>>  \* "BIS fees: "
chunk_vague == <<117, 115, 117, 97, 108, 108, 121, 32, 52, 49, 50, 48>>  \* "usually 4120"
provider_error == <<52, 50, 57, 32, 113, 117, 111, 116, 97, 32, 101, 120, 99, 101, 101, 100, 101, 100>>  \* "429 quota exceeded"
SessionQuestions == {q_short, q_ok, q_cached, q_bis}
ModelChunks == {chunk_plain, chunk_vague}
ProviderErrors == {provider_error}

Message(role, content) == [role |-> role, content |-> content]

\* seq[:n], the oldest turns instead of the newest
LastN_oldest(seq, n) ==
    IF Len(seq) > n THEN SubSeq(seq, 1, n) ELSE seq

\* seq[-n:]
LastN(seq, n) ==
    IF Len(seq) > n THEN SubSeq(seq, Len(seq) - n + 1, Len(seq)) ELSE seq

\* an assembly that puts the system turn after the recent messages
assemble_messages_system_last(which, system_text, history) ==
    LastN(history, IF which = "gemini" THEN gemini_window ELSE openai_window)
        \o <<Message("system", system_text)>>

\* messages_with_system: the system turn, extended by recent_messages
assemble_messages(which, system_text, history) ==
    <<Message("system", system_text)>> \o
        LastN(history, IF which = "gemini" THEN gemini_window ELSE openai_window)

\* the branch the Gemini handler takes, when the cache is consulted first
gemini_route_cache_first(prompt_text, cache) ==
    IF cache_lookup(prompt_text, cache).hit THEN "cache"
    ELSE IF ~is_college_related_question(prompt_text) THEN "reject"
    ELSE "model"

\* the branch the Gemini handler takes for a question
gemini_route(prompt_text, cache) ==
    IF ~is_college_related_question(prompt_text) THEN "reject"
    ELSE IF cache_lookup(prompt_text, cache).hit THEN "cache"
    ELSE "model"

\* the components a route has consulted when it leaves the gating code
gemini_steps(route) ==
    IF route = "reject" THEN <<"classifier">>
    ELSE IF route = "cache" THEN <<"classifier", "cache">>
    ELSE <<"classifier", "cache", "model">>

Init ==
    /\ app \in {"gemini", "openai"}
    /\ messages = <<>>
    /\ loaded_info \in CollegeInfos
    /\ system_message = base_system_message(app, loaded_info)
    /\ response_cache = IF app = "gemini" THEN gemini_response_cache ELSE <<>>
    /\ pc = "idle"
    /\ prompt = <<>>
    /\ full_response = <<>>
    /\ messages_with_system = <<>>
    /\ steps = <<>>
    /\ turns = 0
    /\ nchunks = 0
    /\ input = <<>>
    /\ output = Pending

static == <<app, loaded_info, system_message, response_cache, input, output>>

\* Gemini: the classifier rejects the question
GeminiRejected(q) ==
    /\ app = "gemini" /\ pc = "idle" /\ turns < MaxTurns
    /\ gemini_route(q, response_cache) = "reject"
    /\ messages' = messages \o << Message("user", q),
                                  Message("assistant", fallback_msg) >>
    /\ prompt' = q
    /\ steps' = gemini_steps("reject")
    /\ turns' = turns + 1
    /\ UNCHANGED <<pc, full_response, messages_with_system, nchunks, static>>

\* Gemini: a cache key matches the question
GeminiCached(q) ==
    /\ app = "gemini" /\ pc = "idle" /\ turns < MaxTurns
    /\ gemini_route(q, response_cache) = "cache"
    /\ messages' = messages \o
          << Message("user", q),
             Message("assistant", cache_lookup(q, response_cache).response) >>
    /\ prompt' = q
    /\ steps' = gemini_steps("cache")
    /\ turns' = turns + 1
    /\ UNCHANGED <<pc, full_response, messages_with_system, nchunks, static>>

\* Gemini: the prompt is assembled and the stream is opened
GeminiToModel(q) ==
    /\ app = "gemini" /\ pc = "idle" /\ turns < MaxTurns
    /\ gemini_route(q, response_cache) = "model"
    /\ messages' = Append(messages, Message("user", q))
    /\ messages_with_system' =
          assemble_messages("gemini", system_message, messages')
    /\ prompt' = q
    /\ full_response' = <<>>
    /\ nchunks' = 0
    /\ steps' = gemini_steps("model")
    /\ turns' = turns + 1
    /\ pc' = "streaming"
    /\ UNCHANGED static

\* OpenAI: every question goes to the model
OpenAIToModel(q) ==
    /\ app = "openai" /\ pc = "idle" /\ turns < MaxTurns
    /\ messages' = Append(messages, Message("user", q))
    /\ messages_with_system' =
          assemble_messages("openai", system_message, messages')
    /\ prompt' = q
    /\ full_response' = <<>>
    /\ nchunks' = 0
    /\ steps' = <<"model">>
    /\ turns' = turns + 1
    /\ pc' = "streaming"
    /\ UNCHANGED static

\* for chunk in stream: full_response += chunk
ReceiveChunk(c) ==
    /\ pc = "streaming" /\ nchunks < MaxChunks
    /\ full_response' = full_response \o c
    /\ nchunks' = nchunks + 1
    /\ UNCHANGED <<messages, pc, prompt, messages_with_system, steps, turns, static>>

\* the provider fails: the generator catches the exception, yields
\* "Error: ..." as one more chunk and ends; the handler stores the text
StreamError(e) ==
    /\ pc = "streaming"
    /\ full_response' = full_response \o error_prefix \o e
    /\ messages' = Append(messages, Message("assistant", full_response'))
    /\ steps' = Append(steps, "provider_error")
    /\ pc' = "idle"
    /\ UNCHANGED <<prompt, messages_with_system, turns, nchunks, static>>

\* Gemini: the stream ends; an empty reply is not stored
GeminiStreamEnd ==
    /\ app = "gemini" /\ pc = "streaming"
    /\ messages' = IF full_response # <<>>
                   THEN Append(messages, Message("assistant", full_response))
                   ELSE messages
    /\ steps' = Append(steps, "reply")
    /\ pc' = "idle"
    /\ UNCHANGED <<prompt, full_response, messages_with_system, turns, nchunks, static>>

\* OpenAI: the stream ends; the reply is stored as it is
OpenAIStreamEnd ==
    /\ app = "openai" /\ pc = "streaming"
    /\ messages' = Append(messages, Message("assistant", full_response))
    /\ steps' = Append(steps, "reply")
    /\ pc' = "idle"
    /\ UNCHANGED <<prompt, full_response, messages_with_system, turns, nchunks, static>>

\* an exception reaches the handler's own except clause
HandlerError ==
    /\ pc = "streaming"
    /\ full_response' = IF app = "gemini" THEN gemini_error_response
                        ELSE openai_error_response
    /\ messages' = Append(messages, Message("assistant", full_response'))
    /\ steps' = Append(steps, "handler_error")
    /\ pc' = "idle"
    /\ UNCHANGED <<prompt, messages_with_system, turns, nchunks, static>>

\* a Clear Chat that removes the oldest turn only
ClearChat_drop_oldest ==
    /\ app = "gemini" /\ pc = "idle"
    /\ messages # <<>>
    /\ messages' = Tail(messages)
    /\ prompt' = <<>>
    /\ steps' = <<>>
    /\ UNCHANGED <<pc, full_response, messages_with_system, turns, nchunks, static>>

\* a Clear Chat that resets the response cache too
ClearChat_resets_cache ==
    /\ app = "gemini" /\ pc = "idle"
    /\ messages # <<>>
    /\ messages' = <<>>
    /\ response_cache' = <<>>
    /\ prompt' = <<>>
    /\ steps' = <<>>
    /\ UNCHANGED <<pc, full_response, messages_with_system, turns, nchunks,
                   app, loaded_info, system_message, input, output>>

\* Gemini: the Clear Chat button
ClearChat ==
    /\ app = "gemini" /\ pc = "idle"
    /\ messages # <<>>
    /\ messages' = <<>>
    /\ prompt' = <<>>
    /\ steps' = <<>>
    /\ UNCHANGED <<pc, full_response, messages_with_system, turns, nchunks, static>>

Next ==
    \/ \E q \in SessionQuestions : GeminiRejected(q)
    \/ \E q \in SessionQuestions : GeminiCached(q)
    \/ \E q \in SessionQuestions : GeminiToModel(q)
    \/ \E q \in SessionQuestions : OpenAIToModel(q)
    \/ \E c \in ModelChunks : ReceiveChunk(c)
    \/ \E e \in ProviderErrors : StreamError(e)
    \/ GeminiStreamEnd
    \/ OpenAIStreamEnd
    \/ HandlerError
    \/ ClearChat

Spec == Init /\ [][Next]_vars

-----------------------------------------------------------------------------
(* Properties of a user turn, checked under Spec.  steps lists what the     *)
(* turn in progress, or the last finished one, has consulted; prompt is its *)
(* question.                                                                *)

LastMessage == messages[Len(messages)]

\* the gating discipline of one turn
TurnGated ==
    LET accepted == is_college_related_question(prompt)
        lookup == cache_lookup(prompt, response_cache)
    IN  /\ steps[1] = "classifier"
        /\ InSeq("cache", steps) => (accepted /\ steps[2] = "cache")
        /\ (InSeq("model", steps) \/ pc = "streaming") =>
              /\ accepted
              /\ ~lookup.hit
              /\ SubSeq(steps, 1, 3) = <<"classifier", "cache", "model">>
        /\ ~accepted =>
              /\ steps = <<"classifier">>
              /\ pc = "idle"
              /\ LastMessage = Message("assistant", fallback_msg)
        /\ (accepted /\ lookup.hit) =>
              /\ steps = <<"classifier", "cache">>
              /\ pc = "idle"
              /\ LastMessage = Message("assistant", lookup.response)

\* C1 (as stated): in every user turn the model is invoked only if the
\* classifier accepted the question and no cache key matched; a rejected
\* question ends the turn with the fixed refusal and a cache hit with the
\* cached text, both without a model call, and the classifier is consulted
\* before the cache.
C1_EveryTurnGated == steps # <<>> => TurnGated

\* C1 (amended): the same, for the turns of the Gemini app.
C1_GeminiTurnGated == (app = "gemini" /\ steps # <<>>) => TurnGated

\* C1 witness: a Gemini session whose first turn was rejected with the
\* refusal text and whose second turn was answered from the cache.
C1_Witness ==
    /\ app = "gemini"
    /\ Len(messages) = 4
    /\ messages[2] = Message("assistant", fallback_msg)
    /\ steps = <<"classifier", "cache">>
    /\ messages[4].content = gemini_response_cache[1].value

\* C2: once the model has produced its reply, a reply the validator finds
\* not valid is replaced: the text stored in the history is the fallback
\* text, not the reply.
C2_InvalidReplyReplaced ==
    (/\ pc = "idle"
     /\ steps # <<>>
     /\ steps[Len(steps)] = "reply"
     /\ ~validate_response(full_response, loaded_info).is_valid)
    => /\ LastMessage.role = "assistant"
       /\ LastMessage.content \in {fallback_arabic, fallback_english}

-----------------------------------------------------------------------------
(* The prompt assembly applied to one history.  A history alternates user   *)
(* and assistant turns and ends with the user turn just appended; every     *)
(* turn has its own text, so that a lost or moved turn shows.               *)

MaxHistory == 14

\* the history of n turns whose texts start at the letter 'A' + seed
history_of(n, seed) ==
    [i \in 1..n |->
        Message(IF (n - i) % 2 = 0 THEN "user" ELSE "assistant",
                <<65 + seed + i>>)]

Histories == {history_of(n, seed) : n \in 0..MaxHistory, seed \in 0..1}

AssemblerInit ==
    /\ SessionIdle
    /\ input \in [which : {"gemini", "openai"},
                  college_info : CollegeInfos,
                  history : Histories]
    /\ output = Pending

Assemble ==
    /\ output = Pending
    /\ output' = <<assemble_messages(input.which,
                        base_system_message(input.which, input.college_info),
                        input.history)>>
    /\ UNCHANGED <<input, sessionVars>>

AssemblerNext == Assemble

AssemblerSpec == AssemblerInit /\ [][AssemblerNext]_vars

\* C11: the assembled sequence is one system turn followed by the last
\* `window` turns of the history (all of it when it is shorter), in their
\* original order with nothing removed, merged or reordered; its length is
\* 1 + min(window, length of history), window being 12 for Gemini and 6 for
\* OpenAI.
C11_SystemThenLastWindow ==
    output # Pending =>
        LET window == IF input.which = "gemini" THEN 12 ELSE 6
            n == Len(input.history)
            kept == IF n < window THEN n ELSE window
        IN  /\ Len(output[1]) = 1 + kept
            /\ output[1][1].role = "system"
            /\ output[1][1].content =
                   base_system_message(input.which, input.college_info)
            /\ \A i \in 1..kept : output[1][1 + i] = input.history[n - kept + i]

\* C11 witness: a Gemini history longer than the window has been assembled,
\* so turns were cut off.
C11_Witness ==
    /\ output # Pending
    /\ input.which = "gemini"
    /\ Len(input.history) > 12
    /\ Len(output[1]) = 13

-----------------------------------------------------------------------------
(* response_validator.py applied to one response and one knowledge          *)
(* document.  Responses are built from pieces: vague and restricted words,  *)
(* digit runs that join up when two pieces meet, Arabic, accented Latin and *)
(* plain text.                                                              *)

MaxPieces == 2

ValidatorFragments ==
    { <<117, 115, 117, 97, 108, 108, 121, 32, 52, 49, 50, 49, 32>>,  \* "usually 4121 "
      <<109, 111, 115, 116, 32, 99, 111, 108, 108, 101, 103, 101, 115, 32, 57, 48, 48, 48, 32>>,  \* "most colleges 9000 "
      <<105, 110, 32, 103, 101, 110, 101, 114, 97, 108, 32>>,  \* "in general "
      <<84, 121, 112, 105, 99, 97, 108, 108, 121, 44, 32>>,  \* "Typically, "
      <<1593, 1575, 1583, 1577, 32>>,  \* "عادة "
      <<67, 97, 105, 114, 111, 32, 85, 110, 105, 118, 101, 114, 115, 105, 116, 121, 32>>,  \* "Cairo University "
      <<52, 49>>,  \* "41"
      <<50, 48, 32>>,  \* "20 "
      <<51, 54, 53, 32>>,  \* "365 "
      <<233, 32>>,  \* "\xe9 "
      <<66, 73, 83, 32, 102, 101, 101, 115, 32>> }  \* "BIS fees "

Responses == Concats(ValidatorFragments, MaxPieces)

\* a knowledge document that itself uses a vague word
info_usually == <<66, 73, 83, 32, 102, 101, 101, 115, 32, 97, 114, 101, 32, 117, 115, 117, 97, 108, 108, 121, 32, 51, 54, 53, 48>>  \* "BIS fees are usually 3650"

\* a knowledge document that spells the vague word in capitals
info_upper == <<70, 69, 69, 83, 32, 65, 82, 69, 32, 85, 83, 85, 65, 76, 76, 89, 32, 51, 54, 53, 48>>  \* "FEES ARE USUALLY 3650"

KnowledgeDocs == CollegeInfos \cup {info_usually, info_upper}

ValidatorInit ==
    /\ SessionIdle
    /\ input \in [response : Responses, college_info : KnowledgeDocs]
    /\ output = Pending

Validate ==
    /\ output = Pending
    /\ output' = <<"validate",
                   validate_response(input.response, input.college_info)>>
    /\ UNCHANGED <<input, sessionVars>>

Clean ==
    /\ output = Pending
    /\ output' = <<"clean",
                   clean_response(input.response, input.college_info)>>
    /\ UNCHANGED <<input, sessionVars>>

\* validate_response applied to what clean_response returned
ValidateCleaned ==
    /\ output # Pending /\ output[1] = "clean"
    /\ output' = <<"validate_cleaned",
                   validate_response(output[2], input.college_info),
                   output[2]>>
    /\ UNCHANGED <<input, sessionVars>>

\* clean_response applied to what clean_response returned
CleanAgain ==
    /\ output # Pending /\ output[1] = "clean"
    /\ output' = <<"clean_again",
                   clean_response(output[2], input.college_info),
                   output[2]>>
    /\ UNCHANGED <<input, sessionVars>>

ValidatorNext == Validate \/ Clean \/ ValidateCleaned \/ CleanAgain

ValidatorSpec == ValidatorInit /\ [][ValidatorNext]_vars

-----------------------------------------------------------------------------
(* Properties of the validator, checked under ValidatorSpec.  What each     *)
(* check has to find is stated from the input alone: positions of maximal   *)
(* digit runs, restricted keywords present, vague patterns matched.         *)

Validated == output # Pending /\ output[1] = "validate"
Cleaned == output # Pending /\ output[1] = "clean"
verdict == output[2]

\* the restricted keywords in the response and not in the knowledge document
KeywordsFound ==
    {k \in DOMAIN RESTRICTED_KEYWORDS :
        /\ Contains(Lower(input.response), Lower(RESTRICTED_KEYWORDS[k]))
        /\ ~Contains(Lower(input.college_info), Lower(RESTRICTED_KEYWORDS[k]))}

\* the vague patterns that match the response
PatternsFound ==
    {p \in DOMAIN vague_patterns :
        \E a \in vague_patterns[p].alternatives :
            Contains(Lower(input.response), Lower(a))}

\* the maximal digit runs of s, as pairs <<first, last>> of positions
DigitRuns(s) ==
    {r \in (1..Len(s)) \X (1..Len(s)) :
        /\ r[1] <= r[2]
        /\ \A m \in r[1]..r[2] : IsDigit(s[m])
        /\ (r[1] = 1 \/ ~IsDigit(s[r[1] - 1]))
        /\ (r[2] = Len(s) \/ ~IsDigit(s[r[2] + 1]))}

RunText(s, r) == SubSeq(s, r[1], r[2])

\* the response's digit runs of more than 2 digits that are no digit run of
\* the knowledge document
NumbersFound ==
    {r \in DigitRuns(input.response) :
        /\ r[2] - r[1] + 1 > 2
        /\ \A k \in DigitRuns(input.college_info) :
               RunText(input.college_info, k) # RunText(input.response, r)}

IsPrefix(p, s) == Len(p) <= Len(s) /\ SubSeq(s, 1, Len(p)) = p

\* which check recorded an issue: 1 keywords, 2 vague language, 3 numbers
IssueCheck(issue) ==
    IF IsPrefix(issue_external_prefix, issue) THEN 1
    ELSE IF IsPrefix(issue_vague_prefix, issue) THEN 2
    ELSE IF IsPrefix(issue_number_prefix, issue) THEN 3
    ELSE 0

IssuesOfCheck(c) == {i \in DOMAIN verdict.issues : IssueCheck(verdict.issues[i]) = c}

\* C12: is_valid is true iff none of the three checks (restricted keywords,
\* vague language, unsupported numbers) recorded an issue; all three checks
\* run and their issues are accumulated in that order, so an issue of an
\* earlier check never suppresses the issues of a later one.
C12_AllChecksAccumulated ==
    Validated =>
        /\ verdict.is_valid <=>
               (KeywordsFound = {} /\ PatternsFound = {} /\ NumbersFound = {})
        /\ Cardinality(IssuesOfCheck(1)) = Cardinality(KeywordsFound)
        /\ Cardinality(IssuesOfCheck(2)) = Cardinality(PatternsFound)
        /\ Cardinality(IssuesOfCheck(3)) = Cardinality(NumbersFound)
        /\ IssuesOfCheck(0) = {}
        /\ \A i, j \in DOMAIN verdict.issues :
               i < j => IssueCheck(verdict.issues[i]) <= IssueCheck(verdict.issues[j])

\* C12 witness: a verdict in which each of the three checks recorded an
\* issue.
C12_Witness ==
    /\ Validated
    /\ IssuesOfCheck(1) # {}
    /\ IssuesOfCheck(2) # {}
    /\ IssuesOfCheck(3) # {}

\* C13: the score is max(0, 100 - 20 * number of issues): an integer in
\* 0..100, 100 exactly when is_valid is true, and 0 whenever there are 5 or
\* more issues.
C13_ScoreFromIssueCount ==
    Validated =>
        LET n == Len(verdict.issues)
        IN  /\ verdict.score = Max({0, 100 - 20 * n})
            /\ verdict.score \in 0..100
            /\ (verdict.score = 100) <=> verdict.is_valid
            /\ n >= 5 => verdict.score = 0

\* C13 witness: a verdict with more than 5 issues, where 100 - 20 * issues
\* is negative, and score 0.
C13_Witness ==
    /\ Validated
    /\ Len(verdict.issues) > 5
    /\ verdict.score = 0

\* the vague words the specification names
VagueWordsNamed ==
    { <<117, 115, 117, 97, 108, 108, 121>>,  \* "usually"
      <<116, 121, 112, 105, 99, 97, 108, 108, 121>>,  \* "typically"
      <<105, 110, 32, 103, 101, 110, 101, 114, 97, 108>>,  \* "in general"
      <<1593, 1575, 1583, 1577>> }  \* "\u0639\u0627\u062f\u0629"
InHasVagueWord ==
    \E w \in VagueWordsNamed : Contains(Lower(input.response), w)

\* C14: a response that matches a vague-language pattern (it contains
\* 'usually', 'typically', 'in general', ...) gets a vague-language issue
\* and is_valid = FALSE for every knowledge document, also one that contains
\* the same word; the vague issues are decided by the response alone.
C14_VagueFlaggedWhateverTheInfo ==
    Validated =>
        /\ (InHasVagueWord \/ PatternsFound # {}) =>
               (~verdict.is_valid /\ IssuesOfCheck(2) # {})
        /\ {verdict.issues[i] : i \in IssuesOfCheck(2)} =
               {issue_vague_prefix \o vague_patterns[p].pattern : p \in PatternsFound}

\* C14 witness: the knowledge document and the response both say 'usually';
\* the keyword check lets the word pass, the vague check has flagged it.
C14_Witness ==
    /\ Validated
    /\ Contains(input.college_info, <<117, 115, 117, 97, 108, 108, 121>>)
    /\ Contains(input.response, <<117, 115, 117, 97, 108, 108, 121>>)
    /\ IssuesOfCheck(1) = {}
    /\ IssuesOfCheck(2) # {}
    /\ ~verdict.is_valid

\* the texts of the number issues of the verdict, and of the digit runs
NumberIssueTexts == {verdict.issues[i] : i \in IssuesOfCheck(3)}
InfoRunTexts ==
    {RunText(input.college_info, k) : k \in DigitRuns(input.college_info)}
run_3650 == <<51, 54, 53, 48>>  \* "3650"
run_4120 == <<52, 49, 50, 48>>  \* "4120"
run_365 == <<51, 54, 53>>  \* "365"

\* C15: every maximal digit run of the response that is longer than 2
\* digits and does not appear within the digit runs of the knowledge
\* document gets a number issue and makes the verdict invalid, and a run of
\* 1 or 2 digits never gets one.
C15_UnsupportedNumberFlagged ==
    Validated =>
        /\ \A r \in DigitRuns(input.response) :
               (/\ r[2] - r[1] + 1 > 2
                /\ \A t \in InfoRunTexts : ~Contains(t, RunText(input.response, r)))
               => /\ issue_number_prefix \o RunText(input.response, r)
                        \in NumberIssueTexts
                  /\ ~verdict.is_valid
        /\ \A r \in DigitRuns(input.response) :
               r[2] - r[1] + 1 <= 2
               => issue_number_prefix \o RunText(input.response, r)
                        \notin NumberIssueTexts

\* C15 witness: the knowledge document holds 3650 and not 4120, the
\* response holds 4120: the verdict is invalid with a number issue for 4120.
C15_Witness ==
    /\ Validated
    /\ run_3650 \in InfoRunTexts
    /\ run_4120 \notin InfoRunTexts
    /\ \E r \in DigitRuns(input.response) : RunText(input.response, r) = run_4120
    /\ issue_number_prefix \o run_4120 \in NumberIssueTexts
    /\ ~verdict.is_valid

\* none of the three checks has anything to find in the input
InputValid == KeywordsFound = {} /\ PatternsFound = {} /\ NumbersFound = {}
cleaned == output[2]

\* C16: clean_response returns the response unchanged when the validator
\* finds it valid; otherwise it returns one of the two fixed fallback
\* sentences and no third text: the Arabic one iff the response has a
\* character with code point above 127 (accented Latin too), else the
\* English one.
C16_CleanIsResponseOrFallback ==
    Cleaned =>
        IF InputValid
        THEN cleaned = input.response
        ELSE /\ cleaned \in {fallback_arabic, fallback_english}
             /\ (cleaned = fallback_arabic) <=>
                    (\E i \in 1..Len(input.response) : input.response[i] > 127)

\* C16 witness: an invalid response whose only character above 127 is an
\* accented Latin letter has been replaced by the Arabic sentence.
C16_Witness ==
    /\ Cleaned
    /\ ~InputValid
    /\ \E i \in 1..Len(input.response) : input.response[i] = 233
    /\ \A i \in 1..Len(input.response) : input.response[i] \notin 1536..1791
    /\ cleaned = fallback_arabic

-----------------------------------------------------------------------------
(* Further properties of a user turn, checked under Spec *)

\* C17: when the model invocation fails, before the first chunk or in the
\* middle of the stream, the assistant text stored for the turn is exactly
\* the static apology: neither the chunks already received nor the
\* provider's error message are in it.
C17_FailureStoresApology ==
    (/\ pc = "idle"
     /\ steps # <<>>
     /\ steps[Len(steps)] = "provider_error")
    => /\ LastMessage.role = "assistant"
       /\ LastMessage.content =
              (IF app = "gemini" THEN gemini_error_response
               ELSE openai_error_response)

\* C18: the conversation history is append-only: the history at an earlier
\* point is a prefix of the history at every later point; no operation
\* removes, reorders or rewrites an existing turn.
C18_HistoryAppendOnly == [][IsPrefix(messages, messages')]_vars

\* C18 (amended): every operation either leaves the history as a prefix of
\* the new one, or is the Clear Chat button of the Gemini app, pressed
\* between turns, which empties the history.
C18_AppendOnlyUntilCleared ==
    [][\/ IsPrefix(messages, messages')
       \/ (app = "gemini" /\ pc = "idle" /\ messages' = <<>>)]_vars

\* C18 witness: two turns have been taken and the history holds only the
\* second one, a question and its answer: the first turn was cleared and the
\* history has grown again.
C18_Witness ==
    /\ app = "gemini"
    /\ turns = 2
    /\ Len(messages) = 2
    /\ messages[1].role = "user"
    /\ messages[2].role = "assistant"

\* C19: when the classifier rejects a question, the refusal stored in the
\* history is the localized message of get_fallback_response: the Arabic
\* sentence iff the question has a character with code point above 127, the
\* English sentence for a pure-ASCII question.
C19_RefusalIsLocalizedFallback ==
    (/\ pc = "idle"
     /\ steps = <<"classifier">>)
    => /\ LastMessage.role = "assistant"
       /\ LastMessage.content =
              (IF \E i \in 1..Len(prompt) : prompt[i] > 127
               THEN fallback_arabic ELSE fallback_english)

-----------------------------------------------------------------------------
(* The comparison of digit runs, checked under ValidatorSpec *)

\* a digit run of the knowledge document holds t and is longer than t
ProperlyInsideInfoRun(t) ==
    \E k \in InfoRunTexts : Contains(k, t) /\ Len(k) > Len(t)

\* C20: the number check compares digit runs as substrings: a response
\* digit run longer than 2 digits that is a proper substring of a digit run
\* of the knowledge document (365 against 3650) is treated as supported and
\* gets no number issue.
C20_SubstringRunSupported ==
    Validated =>
        \A r \in DigitRuns(input.response) :
            (/\ r[2] - r[1] + 1 > 2
             /\ ProperlyInsideInfoRun(RunText(input.response, r)))
            => issue_number_prefix \o RunText(input.response, r)
                   \notin NumberIssueTexts

\* C20 (amended): the number check compares digit runs for equality: a
\* response digit run longer than 2 digits gets a number issue iff it equals
\* no digit run of the knowledge document, so a run that is only a proper
\* substring of a knowledge run (365 against 3650) does get one.
C20_EqualRunSupported ==
    Validated =>
        \A r \in DigitRuns(input.response) :
            r[2] - r[1] + 1 > 2
            => ((issue_number_prefix \o RunText(input.response, r)
                     \in NumberIssueTexts)
                <=> RunText(input.response, r) \notin InfoRunTexts)

\* C20 witness: the response holds 365, the knowledge document holds 3650
\* and not 365, and the verdict has a number issue for 365.
C20_Witness ==
    /\ Validated
    /\ \E r \in DigitRuns(input.response) : RunText(input.response, r) = run_365
    /\ run_3650 \in InfoRunTexts
    /\ run_365 \notin InfoRunTexts
    /\ issue_number_prefix \o run_365 \in NumberIssueTexts
    /\ ~verdict.is_valid

-----------------------------------------------------------------------------
(* The restricted-keyword check, term by term, checked under ValidatorSpec *)

kw_usually == <<117, 115, 117, 97, 108, 108, 121>>  \* "usually"
kw_cairo == <<67, 97, 105, 114, 111, 32, 85, 110, 105, 118, 101, 114, 115, 105, 116, 121>>  \* "Cairo University"

\* the issue the keyword check words for a term
ExternalIssue(term) == issue_external_prefix \o term \o issue_external_suffix

\* how often the verdict lists the issue of a term
TimesListed(term) ==
    Cardinality({i \in DOMAIN verdict.issues :
                    verdict.issues[i] = ExternalIssue(term)})

\* s holds t when the case of letters is ignored
HoldsIgnoringCase(s, t) == Contains(Lower(s), Lower(t))

\* C21: for each term of the restricted-keyword list the verdict lists
\* exactly one 'external knowledge' issue if the term occurs in the response
\* and not in the knowledge document (both as case-insensitive substrings),
\* and none if the knowledge document holds it or the response does not.
C21_OneIssuePerAbsentKeyword ==
    Validated =>
        \A k \in DOMAIN RESTRICTED_KEYWORDS :
            TimesListed(RESTRICTED_KEYWORDS[k]) =
                IF /\ HoldsIgnoringCase(input.response, RESTRICTED_KEYWORDS[k])
                   /\ ~HoldsIgnoringCase(input.college_info, RESTRICTED_KEYWORDS[k])
                THEN 1 ELSE 0

\* C21 witness: the response holds 'usually' and 'Cairo University', the
\* knowledge document holds 'USUALLY' in capitals only: the verdict lists
\* the issue of 'Cairo University' once and none for 'usually'.
C21_Witness ==
    /\ Validated
    /\ Contains(input.response, kw_usually)
    /\ Contains(input.response, kw_cairo)
    /\ ~Contains(input.college_info, kw_usually)
    /\ HoldsIgnoringCase(input.college_info, kw_usually)
    /\ TimesListed(kw_cairo) = 1
    /\ TimesListed(kw_usually) = 0

-----------------------------------------------------------------------------
(* The static data and the shape of the history, checked under Spec *)

C23_GeminiHistoryAlternates ==
    (app = "gemini" /\ pc = "idle") =>
        /\ Len(messages) % 2 = 0
        /\ \A i \in DOMAIN messages :
               messages[i].role = (IF i % 2 = 1 THEN "user" ELSE "assistant")

\* the number of system-role messages of a sequence
SystemTurns(seq) == Cardinality({i \in DOMAIN seq : seq[i].role = "system"})

\* C24: every message sequence handed to the model holds exactly one
\* system-role message, in first place, and ends with the user-role message
\* that holds the question of the current turn; the history itself never
\* holds a system-role turn.
C24_OneSystemTurnThenQuestionLast ==
    /\ SystemTurns(messages) = 0
    /\ pc = "streaming" =>
          /\ SystemTurns(messages_with_system) = 1
          /\ messages_with_system[1].role = "system"
          /\ messages_with_system[Len(messages_with_system)] =
                 Message("user", prompt)

\* C24 witness: the second turn of a session is at the model, with the
\* first turn's question and answer between the system message and the
\* question.
C24_Witness ==
    /\ pc = "streaming"
    /\ turns = 2
    /\ Len(messages_with_system) = 4
    /\ messages_with_system[3].role = "assistant"

-----------------------------------------------------------------------------
(* clean_response applied to its own output, checked under ValidatorSpec *)

\* C25: what clean_response returns always passes validation against the
\* same knowledge document (both fallback sentences are valid themselves),
\* so clean_response is idempotent: cleaning its output once more returns
\* that output.
C25_CleanedIsValidAndStable ==
    /\ (output # Pending /\ output[1] = "validate_cleaned") =>
           /\ output[2].is_valid
           /\ output[2].issues = <<>>
    /\ (output # Pending /\ output[1] = "clean_again") =>
           output[2] = output[3]

\* C25 witness: an invalid response was replaced by a fallback sentence, and
\* cleaning that sentence again has returned it.
C25_Witness ==
    /\ output # Pending
    /\ output[1] = "clean_again"
    /\ ~InputValid
    /\ output[3] \in {fallback_arabic, fallback_english}
    /\ output[3] # input.response
    /\ output[2] = output[3]

====
